---- MODULE Spec2Model ----
(***************************************************************************)
(* SpoofDPI HTTPS handler (proxy/handler/https.go): one CONNECT tunnel     *)
(* served by HttpsHandler.Serve, its two communicate goroutines, and the   *)
(* handler state (h.port, h.config) that Serve calls on the same handler   *)
(* share.                                                                  *)
(***************************************************************************)
EXTENDS Integers, Sequences, FiniteSets, TLC

(* ------------------------------ bounds -------------------------------- *)
\* longest TLS record payload the modelled client announces and sends
MaxPayload == 4
\* bytes the client sends right after its first TLS record
MaxExtra == 1
\* most options one NewHttpsHandler call is given
MaxOpts == 3
\* longest buffer handed to splitInChunks alone
MaxLen == 4
\* largest window size handed to splitInChunks alone
MaxWindow == 5
\* how far from 0 and from 65535 the delays given to randomDelay go
DelayEdge == 3

(* ------------------------- program constants -------------------------- *)
\* NewHttpsHandler: bufferSize
BufferSize == 1024
\* NewHttpsHandler: port
DefaultPort == 443
\* uint16 modulus of TimingDelayMin / TimingDelayMax
Uint16 == 65536
\* TLS record header length, content type Handshake, handshake type ClientHello
TLSHeaderLen == 5
TLSHandshake == 22
TLSClientHello == 1
\* largest record payload length the reader accepts (2^14 + 2048)
TLSMaxPayloadLen == 18432

(* ------------------------------ helpers ------------------------------- *)
Min(a, b) == IF a <= b THEN a ELSE b

RECURSIVE Concat(_)
\* bytes.Join of a sequence of byte slices
Concat(ss) == IF ss = <<>> THEN <<>> ELSE Head(ss) \o Concat(Tail(ss))

\* n copies of byte b
Fill(n, b) == [k \in 1..n |-> b]

(* --------------------------- strconv.Atoi ----------------------------- *)
\* A port is the sequence of the characters of initPkt.Port().
DigitVal(c) ==
    CASE c = "0" -> 0 [] c = "1" -> 1 [] c = "2" -> 2 [] c = "3" -> 3
      [] c = "4" -> 4 [] c = "5" -> 5 [] c = "6" -> 6 [] c = "7" -> 7
      [] c = "8" -> 8 [] c = "9" -> 9 [] OTHER -> -1

RECURSIVE AtoiDigits(_, _)
AtoiDigits(s, acc) ==
    IF s = <<>> THEN acc
    ELSE AtoiDigits(Tail(s), 10 * acc + DigitVal(Head(s)))

\* strconv.Atoi: the value and whether it failed; a failure returns 0.
Atoi(s) ==
    IF s = <<>> \/ \E k \in 1..Len(s) : DigitVal(s[k]) < 0
    THEN [val |-> 0, err |-> TRUE]
    ELSE [val |-> AtoiDigits(s, 0), err |-> FALSE]

(* ------------------------- HttpsHandlerConfig ------------------------- *)
\* A compiled pattern is the set of host names it matches.
DefaultHttpsHandlerConfig ==
    [Timeout |-> 0, WindowSize |-> 0, AllowedPatterns |-> <<>>,
     Exploit |-> TRUE, TimingRandomization |-> FALSE,
     TimingDelayMin |-> 5, TimingDelayMax |-> 50]

\* Validate: TRUE iff it returns nil
Validate(c) ==
    /\ ~(c.Timeout < 0)
    /\ ~(c.WindowSize < 0)
    /\ ~(c.TimingRandomization /\ c.TimingDelayMin > c.TimingDelayMax)

WithTimeout(timeout) == [opt |-> "Timeout", timeout |-> timeout]
WithWindowSize(size) == [opt |-> "WindowSize", size |-> size]
WithAllowedPatterns(patterns) == [opt |-> "AllowedPatterns", patterns |-> patterns]
WithExploit(exploit) == [opt |-> "Exploit", exploit |-> exploit]
WithTimingRandomization(min, max) == [opt |-> "Timing", min |-> min, max |-> max]
WithoutTimingRandomization == [opt |-> "NoTiming"]

\* opt(&config)
ApplyOption(c, o) ==
    CASE o.opt = "Timeout" -> [c EXCEPT !.Timeout = o.timeout]
      [] o.opt = "WindowSize" -> [c EXCEPT !.WindowSize = o.size]
      [] o.opt = "AllowedPatterns" -> [c EXCEPT !.AllowedPatterns = o.patterns]
      [] o.opt = "Exploit" -> [c EXCEPT !.Exploit = o.exploit]
      [] o.opt = "Timing" -> [c EXCEPT !.TimingRandomization = TRUE,
                                       !.TimingDelayMin = o.min,
                                       !.TimingDelayMax = o.max]
      [] o.opt = "NoTiming" -> [c EXCEPT !.TimingRandomization = FALSE]

RECURSIVE ApplyOptions(_, _)
ApplyOptions(c, opts) ==
    IF opts = <<>> THEN c
    ELSE ApplyOptions(ApplyOption(c, Head(opts)), Tail(opts))

\* NewHttpsHandler keeping whatever the options produced
NewHttpsHandler_NoValidate(opts) == ApplyOptions(DefaultHttpsHandlerConfig, opts)

\* NewHttpsHandler: the config of the returned handler
NewHttpsHandler(opts) ==
    LET config0 == ApplyOptions(DefaultHttpsHandlerConfig, opts)
    IN  IF Validate(config0) THEN config0 ELSE DefaultHttpsHandlerConfig

(* --------------------------- splitInChunks ---------------------------- *)
RECURSIVE SplitLoop_KeepsEmpty(_, _, _)
\* the loop appending what is left, an empty slice, before it breaks
SplitLoop_KeepsEmpty(raw, size, chunks) ==
    IF Len(raw) = 0 THEN Append(chunks, raw)
    ELSE LET sz == IF Len(raw) < size THEN Len(raw) ELSE size
         IN  SplitLoop_KeepsEmpty(SubSeq(raw, sz + 1, Len(raw)), sz,
                                  Append(chunks, SubSeq(raw, 1, sz)))

RECURSIVE SplitLoop(_, _, _)
\* the loop of the size > 0 branch; size shrinks to len(raw) on the last round
SplitLoop(raw, size, chunks) ==
    IF Len(raw) = 0 THEN chunks
    ELSE LET sz == IF Len(raw) < size THEN Len(raw) ELSE size
         IN  SplitLoop(SubSeq(raw, sz + 1, Len(raw)), sz,
                       Append(chunks, SubSeq(raw, 1, sz)))

\* splitInChunks cutting size bytes each round and dropping a shorter rest
splitInChunks_DropsRest(bytes, size) ==
    IF size > 0
    THEN [k \in 1..(Len(bytes) \div size) |->
             SubSeq(bytes, (k - 1) * size + 1, k * size)]
    ELSE IF Len(bytes) < 1 THEN <<bytes>>
    ELSE <<SubSeq(bytes, 1, 1), SubSeq(bytes, 2, Len(bytes))>>

\* splitInChunks with the legacy branch returning the buffer whole
splitInChunks_LegacyWhole(bytes, size) ==
    IF size > 0 THEN SplitLoop(bytes, size, <<>>) ELSE <<bytes>>

splitInChunks(bytes, size) ==
    IF size > 0 THEN SplitLoop(bytes, size, <<>>)
    ELSE IF Len(bytes) < 1 THEN <<bytes>>
    ELSE <<SubSeq(bytes, 1, 1), SubSeq(bytes, 2, Len(bytes))>>

(* ------------------------ packet.ReadTLSMessage ----------------------- *)
\* Reads one TLS record off the bytes the client sends: 5 header bytes, the
\* big-endian length L, then L payload bytes.
ReadTLSMessage(s) ==
    IF Len(s) < TLSHeaderLen THEN [err |-> "ReadError"]
    ELSE LET L == s[4] * 256 + s[5]
         IN  IF L > TLSMaxPayloadLen THEN [err |-> "MalformedRecord"]
             ELSE IF Len(s) < TLSHeaderLen + L THEN [err |-> "ReadError"]
             ELSE [err |-> "",
                   Raw |-> SubSeq(s, 1, TLSHeaderLen + L),
                   rest |-> SubSeq(s, TLSHeaderLen + L + 1, Len(s))]

IsClientHello(m) ==
    /\ m.Raw[1] = TLSHandshake
    /\ Len(m.Raw) - TLSHeaderLen >= 4
    /\ m.Raw[TLSHeaderLen + 1] = TLSClientHello

(* ------------------------------ inputs -------------------------------- *)
\* the request line of each modelled client: its HTTP version and target host
RequestLines ==
    {[version |-> "HTTP/1.1", domain |-> "example.com"],
     [version |-> "HTTP/1.0", domain |-> "other.com"]}
\* the compiled pattern ^example\.com$
PatExample == {"example.com"}
\* initPkt.Port(): absent, "80", and one that is no number
Ports == {<<>>, <<"8", "0">>, <<"x">>}
Requests ==
    {[version |-> l.version, domain |-> l.domain, port |-> p] :
        l \in RequestLines, p \in Ports}

\* options the proxy passes to NewHttpsHandler
TimeoutArgs == {0, 1}
WindowSizeArgs == {0, 4}
PatternArgs == {<<>>, <<PatExample>>}
TimingArgs ==
    {WithoutTimingRandomization, WithTimingRandomization(1, 1),
     WithTimingRandomization(1, 2)}

\* what the client sends after the 200 response: one TLS record, or less,
\* followed by up to MaxExtra further bytes
Payload(ht, L) == IF L = 0 THEN <<>> ELSE <<ht>> \o Fill(L - 1, 0)
Records ==
    {<<ct, 3, 1, 0, L>> \o Payload(ht, L) :
        ct \in {TLSHandshake, 23}, ht \in {TLSClientHello, 2}, L \in 0..MaxPayload}
ClientStreams ==
    {r \o Fill(n, 23) : r \in Records, n \in 0..MaxExtra}
      \cup {<<>>, <<TLSHandshake, 3, 1, 255, 255>>,
            <<TLSHandshake, 3, 1, 0, 4, TLSClientHello>>}

(* ------------------------------- state -------------------------------- *)
VARIABLES
    config,       \* h.config
    hport,        \* h.port, shared by every Serve call on the handler
    pc,           \* where Serve is
    req,          \* initPkt of this Serve call
    parseErr,     \* err after strconv.Atoi
    dials,        \* ports of the net.DialTCP calls made by this Serve call
    reason,       \* why Serve returned
    lConn,        \* client socket
    rConn,        \* upstream socket
    cIn,          \* bytes sent by the client and not yet read
    clientHello,  \* m.Raw
    chunks,       \* c of writeChunks
    i,            \* loop index of writeChunks
    fpc,          \* where each communicate goroutine is
    fbuf,         \* bytesRead of each communicate goroutine
    lLog,         \* the 200 response and the reads of the client socket, in order
    rLog,         \* writes on the upstream socket and sleeps of Serve, in order
    wc,           \* total and the return values (n, err) of writeChunks
    ctor,         \* a NewHttpsHandler call: its local config and its result
    load,         \* a Config.Load call: its Args and the Config it fills
    sp,           \* a splitInChunks call: its arguments and its result
    rd            \* a randomDelay call: the delay bounds and the delay slept

\* the calls followed on their own, outside a tunnel
pure == <<ctor, load, sp, rd>>
\* the tunnel's variables
tunnel ==
    <<config, hport, pc, req, parseErr, dials, reason, lConn, rConn, cIn,
      clientHello, chunks, i, fpc, fbuf, lLog, rLog, wc>>

vars ==
    <<config, hport, pc, req, parseErr, dials, reason, lConn, rConn, cIn,
      clientHello, chunks, i, fpc, fbuf, lLog, rLog, wc, ctor, load, sp, rd>>

\* the two communicate goroutines: client -> upstream and upstream -> client
Dirs == {"c2u", "u2c"}

NoReq == [version |-> "", domain |-> "", port |-> <<>>]
OpenConn == [open |-> TRUE, closeCalls |-> 0, closes |-> 0]
\* rConn before net.DialTCP returned a connection
NoConn == [open |-> FALSE, closeCalls |-> 0, closes |-> 0]

\* writeChunks not called
NoWrite == [total |-> 0, returned |-> FALSE, n |-> 0, err |-> FALSE]
\* no call of the function is being followed
NoCall == [pc |-> "none"]

\* (*net.TCPConn).Close: the first call closes the socket, a later one fails
Close(c) ==
    [open |-> FALSE, closeCalls |-> c.closeCalls + 1,
     closes |-> IF c.open THEN c.closes + 1 ELSE c.closes]

Init ==
    /\ \E to \in TimeoutArgs, ws \in WindowSizeArgs, ap \in PatternArgs,
          ex \in BOOLEAN, tm \in TimingArgs :
          config = NewHttpsHandler(<<WithTimeout(to), WithWindowSize(ws),
                                     WithAllowedPatterns(ap), WithExploit(ex), tm>>)
    /\ hport = DefaultPort
    /\ pc = "idle"
    /\ req = NoReq
    /\ parseErr = FALSE
    /\ dials = <<>>
    /\ reason = ""
    /\ lConn = OpenConn
    /\ rConn = NoConn
    /\ cIn = <<>>
    /\ clientHello = <<>>
    /\ chunks = <<>>
    /\ i = 0
    /\ fpc = [d \in Dirs |-> "off"]
    /\ fbuf = [d \in Dirs |-> <<>>]
    /\ lLog = <<>>
    /\ rLog = <<>>
    /\ wc = NoWrite
    /\ ctor = NoCall
    /\ load = NoCall
    /\ sp = NoCall
    /\ rd = NoCall

(* -------------------------------- Serve ------------------------------- *)
\* Another Serve call on the same handler runs h.port, err = strconv.Atoi(...)
\* for its own request. This call reads h.port for the last time when it
\* dials, so the peers are followed up to that point.
PeerServeParsePort ==
    /\ pc \in {"idle", "dial"}
    /\ \E p \in Ports :
          /\ p # <<>>
          /\ hport' = Atoi(p).val
    /\ UNCHANGED <<pure, wc, config, pc, req, parseErr, dials, reason, lConn, rConn, cIn,
                   clientHello, chunks, i, fpc, fbuf, lLog, rLog>>

\* Serve is called; initPkt.Port() is parsed into h.port when it is not empty.
\* A parse failure is logged and Serve goes on.
ServeParsePort ==
    /\ pc = "idle"
    /\ \E r \in Requests :
          /\ req' = r
          /\ IF r.port # <<>>
             THEN /\ hport' = Atoi(r.port).val
                  /\ parseErr' = Atoi(r.port).err
             ELSE UNCHANGED <<hport, parseErr>>
    /\ pc' = "dial"
    /\ UNCHANGED <<pure, wc, config, dials, reason, lConn, rConn, cIn, clientHello,
                   chunks, i, fpc, fbuf, lLog, rLog>>

\* net.DialTCP to h.port returns a connection
ServeDialOk ==
    /\ pc = "dial"
    /\ dials' = Append(dials, hport)
    /\ rConn' = OpenConn
    /\ pc' = "write200"
    /\ UNCHANGED <<pure, wc, config, hport, req, parseErr, reason, lConn, cIn,
                   clientHello, chunks, i, fpc, fbuf, lLog, rLog>>

\* ServeDialFail without its return: Serve goes on to the 200 response
ServeDialFail_NoReturn ==
    /\ pc = "dial"
    /\ dials' = Append(dials, hport)
    /\ lConn' = Close(lConn)
    /\ reason' = "DialFailed"
    /\ pc' = "write200"
    /\ UNCHANGED <<pure, wc, config, hport, req, parseErr, rConn, cIn, clientHello,
                   chunks, i, fpc, fbuf, lLog, rLog>>

\* net.DialTCP fails: lConn.Close() and return
ServeDialFail ==
    /\ pc = "dial"
    /\ dials' = Append(dials, hport)
    /\ lConn' = Close(lConn)
    /\ reason' = "DialFailed"
    /\ pc' = "done"
    /\ UNCHANGED <<pure, wc, config, hport, req, parseErr, rConn, cIn, clientHello,
                   chunks, i, fpc, fbuf, lLog, rLog>>

\* Response200 with a constant protocol version in place of the request's
Response200_Fixed(version) == "HTTP/1.1" \o " 200 Connection Established\r\n\r\n"

\* the bytes of the 200 response
Response200(version) == version \o " 200 Connection Established\r\n\r\n"

\* lConn.Write of the 200 response; on an error Serve returns
ServeWrite200 ==
    /\ pc = "write200"
    /\ \E ok \in BOOLEAN :
          /\ ok => lConn.open
          /\ IF ok
             THEN /\ lLog' = Append(lLog, [op |-> "write", by |-> "Serve",
                                           data |-> Response200(req.version)])
                  /\ pc' = "readHello"
                  /\ UNCHANGED reason
             ELSE /\ reason' = "HandshakeWriteFailed"
                  /\ pc' = "done"
                  /\ UNCHANGED lLog
    /\ UNCHANGED <<pure, wc, config, hport, req, parseErr, dials, lConn, rConn, cIn,
                   clientHello, chunks, i, fpc, fbuf, rLog>>

\* packet.ReadTLSMessage(lConn) on what the client sends; Serve returns on a
\* read error and on a record that is no ClientHello
ServeReadHello ==
    /\ pc = "readHello"
    /\ \E s \in ClientStreams :
          LET m == ReadTLSMessage(s)
          IN  /\ lLog' = Append(lLog, [op |-> "read", by |-> "Serve", data |-> <<>>])
              /\ IF m.err # ""
                 THEN /\ reason' = m.err
                      /\ pc' = "done"
                      /\ UNCHANGED <<clientHello, cIn>>
                 ELSE IF ~IsClientHello(m)
                 THEN /\ reason' = "NotClientHello"
                      /\ pc' = "done"
                      /\ cIn' = m.rest
                      /\ UNCHANGED clientHello
                 ELSE /\ clientHello' = m.Raw
                      /\ cIn' = m.rest
                      /\ pc' = "spawn"
                      /\ UNCHANGED reason
    /\ UNCHANGED <<pure, wc, config, hport, req, parseErr, dials, lConn, rConn, chunks,
                   i, fpc, fbuf, rLog>>

\* UseChunks ignoring the Exploit switch
UseChunks_Always == TRUE

\* the condition under which Serve writes the ClientHello in chunks
UseChunks == config.Exploit

\* the two go h.communicate(...) statements, then the branch on the config:
\* splitInChunks and writeChunks, or one rConn.Write
ServeSpawn ==
    /\ pc = "spawn"
    /\ fpc' = [d \in Dirs |-> "read"]
    /\ IF UseChunks
       THEN LET c == splitInChunks(clientHello, config.WindowSize)
            IN  /\ chunks' = c
                /\ i' = 0
                /\ pc' = IF 0 < Len(c) THEN "chunk" ELSE "done"
                /\ reason' = IF 0 < Len(c) THEN reason ELSE "ok"
                /\ wc' = [total |-> 0, returned |-> ~(0 < Len(c)),
                          n |-> 0, err |-> FALSE]
       ELSE /\ pc' = "plain"
            /\ UNCHANGED <<chunks, i, reason, wc>>
    /\ UNCHANGED <<pure, config, hport, req, parseErr, dials, lConn, rConn, cIn,
                   clientHello, fbuf, lLog, rLog>>

\* randomDelay, called before every chunk but the first
ServeRandomDelay ==
    /\ pc = "delay"
    /\ IF ~config.TimingRandomization
       THEN UNCHANGED rLog
       ELSE IF config.TimingDelayMin >= config.TimingDelayMax
       THEN UNCHANGED rLog
       ELSE \E r \in 0..(config.TimingDelayMax - config.TimingDelayMin) :
               rLog' = Append(rLog,
                   [op |-> "sleep", by |-> "Serve",
                    data |-> (config.TimingDelayMin + r) % Uint16])
    /\ pc' = "chunk"
    /\ UNCHANGED <<pure, wc, config, hport, req, parseErr, dials, reason, lConn, rConn,
                   cIn, clientHello, chunks, i, fpc, fbuf, lLog>>

\* ServeWriteChunk without the return in its error branch: the loop goes on
\* with the next chunk
ServeWriteChunk_NoReturn ==
    /\ pc = "chunk"
    /\ \E ok \in BOOLEAN :
          /\ ok => rConn.open
          /\ rLog' = IF ok
                     THEN Append(rLog, [op |-> "write", by |-> "Serve",
                                        data |-> chunks[i + 1]])
                     ELSE rLog
          /\ reason' = IF ~ok THEN "ChunkWriteFailed"
                       ELSE IF i + 1 < Len(chunks) \/ reason # "" THEN reason
                       ELSE "ok"
          /\ wc' = IF ok THEN [wc EXCEPT !.total = wc.total + Len(chunks[i + 1])]
                   ELSE [wc EXCEPT !.err = TRUE]
    /\ i' = i + 1
    /\ pc' = IF i + 1 < Len(chunks) THEN "delay" ELSE "done"
    /\ UNCHANGED <<pure, config, hport, req, parseErr, dials, lConn, rConn, cIn,
                   clientHello, chunks, fpc, fbuf, lLog>>

\* conn.Write(c[i]) in writeChunks; an error returns 0, err at once
ServeWriteChunk ==
    /\ pc = "chunk"
    /\ \E ok \in BOOLEAN :
          /\ ok => rConn.open
          /\ IF ok
             THEN /\ rLog' = Append(rLog, [op |-> "write", by |-> "Serve",
                                           data |-> chunks[i + 1]])
                  /\ i' = i + 1
                  /\ pc' = IF i + 1 < Len(chunks) THEN "delay" ELSE "done"
                  /\ reason' = IF i + 1 < Len(chunks) THEN reason ELSE "ok"
                  /\ wc' = LET total == wc.total + Len(chunks[i + 1])
                           IN  IF i + 1 < Len(chunks)
                               THEN [wc EXCEPT !.total = total]
                               ELSE [total |-> total, returned |-> TRUE,
                                     n |-> total, err |-> FALSE]
             ELSE /\ reason' = "ChunkWriteFailed"
                  /\ pc' = "done"
                  /\ wc' = [wc EXCEPT !.returned = TRUE, !.n = 0, !.err = TRUE]
                  /\ UNCHANGED <<rLog, i>>
    /\ UNCHANGED <<pure, config, hport, req, parseErr, dials, lConn, rConn, cIn,
                   clientHello, chunks, fpc, fbuf, lLog>>

\* rConn.Write(clientHello) of the plain path
ServeWritePlain ==
    /\ pc = "plain"
    /\ \E ok \in BOOLEAN :
          /\ ok => rConn.open
          /\ IF ok
             THEN /\ rLog' = Append(rLog, [op |-> "write", by |-> "Serve",
                                           data |-> clientHello])
                  /\ reason' = "ok"
             ELSE /\ reason' = "PlainWriteFailed"
                  /\ UNCHANGED rLog
    /\ pc' = "done"
    /\ UNCHANGED <<pure, wc, config, hport, req, parseErr, dials, lConn, rConn, cIn,
                   clientHello, chunks, i, fpc, fbuf, lLog>>

(* ----------------------------- communicate ---------------------------- *)
\* the socket a goroutine reads (from) and the one it writes (to)
From(d) == IF d = "c2u" THEN lConn ELSE rConn
To(d) == IF d = "c2u" THEN rConn ELSE lConn

\* ReadBytes(ctx, from, buf) returns data: at most len(buf) of the bytes the
\* client has sent, or the next bytes of the upstream's answer
FwdReadData(d) ==
    /\ fpc[d] = "read"
    /\ From(d).open
    /\ IF d = "c2u"
       THEN /\ cIn # <<>>
            /\ \E n \in 1..Min(Len(cIn), BufferSize) :
                  /\ fbuf' = [fbuf EXCEPT ![d] = SubSeq(cIn, 1, n)]
                  /\ cIn' = SubSeq(cIn, n + 1, Len(cIn))
            /\ lLog' = Append(lLog, [op |-> "read", by |-> d, data |-> <<>>])
       ELSE /\ fbuf' = [fbuf EXCEPT ![d] = <<TLSHandshake>>]
            /\ UNCHANGED <<cIn, lLog>>
    /\ fpc' = [fpc EXCEPT ![d] = "write"]
    /\ UNCHANGED <<pure, wc, config, hport, pc, req, parseErr, dials, reason, lConn,
                   rConn, clientHello, chunks, i, rLog>>

\* what every failed ReadBytes does: log and return, so the deferred closes run
FwdReadFails(d) ==
    /\ fpc[d] = "read"
    /\ fpc' = [fpc EXCEPT ![d] = "defer"]
    /\ lLog' = IF d = "c2u"
               THEN Append(lLog, [op |-> "read", by |-> d, data |-> <<>>])
               ELSE lLog
    /\ UNCHANGED <<pure, wc, config, hport, pc, req, parseErr, dials, reason, lConn,
                   rConn, cIn, clientHello, chunks, i, fbuf, rLog>>

\* ReadBytes fails because from was closed by the other goroutine
FwdReadClosed(d) == ~From(d).open /\ FwdReadFails(d)

\* ReadBytes fails because the peer closed or reset the connection
FwdReadPeerError(d) == From(d).open /\ FwdReadFails(d)

\* ReadBytes fails because the deadline of setConnectionTimeout expired
FwdReadDeadline(d) == From(d).open /\ config.Timeout > 0 /\ FwdReadFails(d)

\* to.Write(bytesRead); an error returns
FwdWrite(d) ==
    /\ fpc[d] = "write"
    /\ \E ok \in BOOLEAN :
          /\ ok => To(d).open
          /\ IF ok
             THEN /\ fpc' = [fpc EXCEPT ![d] = "read"]
                  /\ IF d = "c2u"
                     THEN rLog' = Append(rLog, [op |-> "write", by |-> d,
                                                data |-> fbuf[d]])
                     ELSE UNCHANGED rLog
             ELSE /\ fpc' = [fpc EXCEPT ![d] = "defer"]
                  /\ UNCHANGED rLog
    /\ UNCHANGED <<pure, wc, config, hport, pc, req, parseErr, dials, reason, lConn,
                   rConn, cIn, clientHello, chunks, i, fbuf, lLog>>

\* FwdDefer without the deferred closes
FwdDefer_NoClose(d) ==
    /\ fpc[d] = "defer"
    /\ fpc' = [fpc EXCEPT ![d] = "exited"]
    /\ UNCHANGED <<pure, wc, config, hport, pc, req, parseErr, dials, reason,
                   lConn, rConn, cIn, clientHello, chunks, i, fbuf, lLog, rLog>>

\* FwdDefer closing only the socket the goroutine reads
FwdDefer_FromOnly(d) ==
    /\ fpc[d] = "defer"
    /\ IF d = "c2u"
       THEN lConn' = Close(lConn) /\ UNCHANGED rConn
       ELSE rConn' = Close(rConn) /\ UNCHANGED lConn
    /\ fpc' = [fpc EXCEPT ![d] = "exited"]
    /\ UNCHANGED <<pure, wc, config, hport, pc, req, parseErr, dials, reason, cIn,
                   clientHello, chunks, i, fbuf, lLog, rLog>>

\* the deferred function of communicate: from.Close() and to.Close()
FwdDefer(d) ==
    /\ fpc[d] = "defer"
    /\ lConn' = Close(lConn)
    /\ rConn' = Close(rConn)
    /\ fpc' = [fpc EXCEPT ![d] = "exited"]
    /\ UNCHANGED <<pure, wc, config, hport, pc, req, parseErr, dials, reason, cIn,
                   clientHello, chunks, i, fbuf, lLog, rLog>>

Next ==
    \/ PeerServeParsePort
    \/ ServeParsePort
    \/ ServeDialOk
    \/ ServeDialFail
    \/ ServeWrite200
    \/ ServeReadHello
    \/ ServeSpawn
    \/ ServeRandomDelay
    \/ ServeWriteChunk
    \/ ServeWritePlain
    \/ \E d \in Dirs : FwdReadData(d)
    \/ \E d \in Dirs : FwdReadClosed(d)
    \/ \E d \in Dirs : FwdReadPeerError(d)
    \/ \E d \in Dirs : FwdReadDeadline(d)
    \/ \E d \in Dirs : FwdWrite(d)
    \/ \E d \in Dirs : FwdDefer(d)

Spec == Init /\ [][Next]_vars

\* What the scheduling of the code guarantees. A goroutine that can run does
\* run; net.DialTCP, time.Sleep and the writes of Serve return; a Read or a
\* Write on a socket that was closed returns its error. A Read on an open
\* socket returns only when the peer sends, closes, or a deadline was set:
\* ReadTLSMessage in Serve runs with no deadline, so nothing is guaranteed
\* about ServeReadHello, FwdReadData and FwdReadPeerError.
Fairness ==
    /\ WF_vars(ServeDialOk \/ ServeDialFail)
    /\ WF_vars(ServeWrite200)
    /\ WF_vars(ServeSpawn)
    /\ WF_vars(ServeRandomDelay)
    /\ WF_vars(ServeWriteChunk)
    /\ WF_vars(ServeWritePlain)
    /\ \A d \in Dirs : WF_vars(FwdReadClosed(d))
    /\ \A d \in Dirs : WF_vars(~To(d).open /\ FwdWrite(d))
    /\ \A d \in Dirs : WF_vars(FwdDefer(d))

\* The handlers followed under fairness: communicate reads Timeout only and
\* Serve reads Exploit, WindowSize and the timing fields, so the allowed
\* patterns are left at their default and the timing is one that sleeps.
InitFair ==
    /\ Init
    /\ config.AllowedPatterns = <<>>
    /\ config.TimingRandomization
    /\ config.TimingDelayMin < config.TimingDelayMax

FairSpec == InitFair /\ [][Next]_vars /\ Fairness

(* ------------------------- reading the logs --------------------------- *)
\* positions in rLog of the ClientHello writes made by Serve
HelloPos == {k \in 1..Len(rLog) : rLog[k].op = "write" /\ rLog[k].by = "Serve"}
\* positions in rLog of the writes made by the client -> upstream goroutine
FwdPos == {k \in 1..Len(rLog) : rLog[k].op = "write" /\ rLog[k].by = "c2u"}
\* positions in rLog of the sleeps of randomDelay
SleepPos == {k \in 1..Len(rLog) : rLog[k].op = "sleep"}
\* the ClientHello writes made by Serve, in order
HelloWrites ==
    LET w == SelectSeq(rLog, LAMBDA e : e.op = "write" /\ e.by = "Serve")
    IN  [k \in 1..Len(w) |-> w[k].data]
\* the request's host matches none of the allowed patterns
PatternMiss ==
    /\ config.AllowedPatterns # <<>>
    /\ \A k \in 1..Len(config.AllowedPatterns) :
          req.domain \notin config.AllowedPatterns[k]
\* communicate goroutines that have run their deferred closes
NumExited == Cardinality({d \in Dirs : fpc[d] = "exited"})

(* ------------------------------- claims ------------------------------- *)
\* C1: when exploit is enabled, allowed_patterns is non-empty and the request's
\* domain matches none of them, Serve writes the ClientHello upstream in
\* exactly one write call, with no sleep.
C1_PatternMissSingleWrite ==
    (reason = "ok" /\ config.Exploit /\ PatternMiss)
        => (Len(HelloWrites) = 1 /\ SleepPos = {})

\* C2: every dial of a Serve call uses the port of that call's own request
\* when it is non-empty, and 443 when it is empty, whatever other Serve calls
\* on the handler did before or do meanwhile.
C2_DialUsesOwnPort ==
    \A k \in 1..Len(dials) :
        /\ req.port = <<>> => dials[k] = 443
        /\ (req.port # <<>> /\ ~Atoi(req.port).err) => dials[k] = Atoi(req.port).val

\* C3 (as claimed): once both communicate goroutines have exited, each socket
\* has received exactly one Close call.
C3_ExactlyOneCloseCall ==
    (\A d \in Dirs : fpc[d] = "exited")
        => (lConn.closeCalls = 1 /\ rConn.closeCalls = 1)

\* C3 (amended): every socket receives one Close call from each communicate
\* goroutine that has exited (and the client socket one more from Serve when
\* the dial failed), so two per socket once both goroutines have exited; only
\* the first call closes the socket, which is thus closed at most once, and
\* exactly once when both goroutines have exited.
C3_CloseCallsPerExit ==
    /\ rConn.closeCalls = NumExited
    /\ lConn.closeCalls = NumExited + (IF reason = "DialFailed" THEN 1 ELSE 0)
    /\ lConn.closes <= 1 /\ rConn.closes <= 1
    /\ (\A d \in Dirs : fpc[d] = "exited")
          => /\ lConn.closeCalls = 2 /\ rConn.closeCalls = 2
             /\ lConn.closes = 1 /\ rConn.closes = 1
             /\ ~lConn.open /\ ~rConn.open

\* C3 witness: both goroutines failed, ran their deferred closes, and each
\* socket got its second Close call
C3_BothExited ==
    /\ \A d \in Dirs : fpc[d] = "exited"
    /\ lConn.closeCalls = 2
    /\ rConn.closeCalls = 2

\* C4: when Serve stops because the 200 write fails, the ClientHello read
\* fails or the record is no ClientHello, both the client socket and the
\* dialled upstream socket end up closed.
C4_ErrorReturnCloses ==
    (pc = "done" /\ reason \in {"HandshakeWriteFailed", "ReadError",
                                "MalformedRecord", "NotClientHello"})
        => (~lConn.open /\ ~rConn.open)

\* C5: the ClientHello chunks reach the upstream socket in source order and no
\* write of the client -> upstream goroutine lies between the first and the
\* last of them.
C5_ChunksNotInterleaved ==
    /\ config.Exploit => \A k \in 1..Len(HelloWrites) : HelloWrites[k] = chunks[k]
    /\ \A p \in HelloPos, q \in HelloPos, f \in FwdPos : ~(p < f /\ f < q)

\* C6: the first write on the upstream socket is the beginning of the
\* ClientHello, no forwarded byte precedes it, and the ClientHello writes
\* concatenated are the record read from the client.
C6_HelloIsFirstWrite ==
    /\ \A f \in FwdPos : \E p \in HelloPos : p < f
    /\ \A k \in 1..Len(HelloWrites) :
          LET sofar == Concat(SubSeq(HelloWrites, 1, k))
          IN  sofar = SubSeq(clientHello, 1, Len(sofar))
    /\ reason = "ok" => Concat(HelloWrites) = clientHello

\* C7: the 200 response is the first thing Serve does on the client socket: it
\* is written before any read of the client socket by Serve or by a
\* communicate goroutine, and it is the request's version string followed by
\* " 200 Connection Established\r\n\r\n".
C7_ResponseBeforeRead ==
    lLog # <<>> =>
        /\ lLog[1].op = "write"
        /\ lLog[1].by = "Serve"
        /\ lLog[1].data = req.version \o " 200 Connection Established\r\n\r\n"
        /\ \A k \in 2..Len(lLog) : ~(lLog[k].op = "write" /\ lLog[k].by = "Serve")

\* C7 witness: after the response, Serve read the ClientHello and the
\* client -> upstream goroutine read the client socket too
C7_ReadsAfterResponse ==
    /\ Len(lLog) >= 3
    /\ lLog[2].op = "read" /\ lLog[2].by = "Serve"
    /\ \E k \in 3..Len(lLog) : lLog[k].op = "read" /\ lLog[k].by = "c2u"

\* C8: when the upstream dial fails Serve closes the client socket and
\* returns: no 200 response, no read of the client socket, no communicate
\* goroutine, nothing written upstream, and exactly one dial.
C8_DialFailureAborts ==
    reason = "DialFailed" =>
        /\ pc = "done"
        /\ ~lConn.open /\ lConn.closeCalls = 1
        /\ lLog = <<>>
        /\ rLog = <<>>
        /\ \A d \in Dirs : fpc[d] = "off"
        /\ Len(dials) = 1
        /\ rConn = NoConn

\* C8 witness: a dial that failed
C8_DialFailed == reason = "DialFailed" /\ Len(dials) = 1 /\ ~lConn.open

\* C9: when the request's port is non-empty and is no integer, Serve aborts:
\* no upstream dial is attempted and no 200 response is written.
C9_ParseFailureAborts == parseErr => (dials = <<>> /\ lLog = <<>>)

\* C10: with timing enabled, on the chunked path, a sleep of d milliseconds
\* with min <= d <= max lies between every two consecutive chunk writes, also
\* when min = max, and no sleep precedes the first chunk.
C10_SleepBetweenChunks ==
    (config.Exploit /\ config.TimingRandomization) =>
        /\ \A s \in SleepPos :
              /\ config.TimingDelayMin <= rLog[s].data
              /\ rLog[s].data <= config.TimingDelayMax
              /\ \E p \in HelloPos : p < s
        /\ \A p \in HelloPos, q \in HelloPos :
              p < q => \E s \in SleepPos : p < s /\ s < q

\* C11: with exploit disabled Serve writes the ClientHello upstream in exactly
\* one write call carrying the whole record; splitInChunks and writeChunks
\* are not used and nothing is slept, whatever window_size and timing are.
C11_ExploitOffSingleWrite ==
    ~config.Exploit =>
        /\ chunks = <<>>
        /\ wc = NoWrite
        /\ SleepPos = {}
        /\ Len(HelloWrites) <= 1
        /\ reason = "ok" => HelloWrites = <<clientHello>>
        /\ pc \notin {"chunk", "delay"}

\* C11 witness: the plain write done under a config with a window size and
\* timing randomization set
C11_PlainWriteDone ==
    /\ ~config.Exploit
    /\ config.WindowSize > 0
    /\ config.TimingRandomization
    /\ config.TimingDelayMin < config.TimingDelayMax
    /\ reason = "ok"
    /\ HelloWrites = <<clientHello>>

\* C19: when the write of a chunk fails in writeChunks, the chunks before it
\* and no others have been written, none is written later, no further sleep
\* happens, and writeChunks has returned the error with a byte count of 0;
\* the failed write is not tried again.
C19_FailedChunkStops ==
    reason = "ChunkWriteFailed" =>
        /\ pc = "done"
        /\ wc.returned /\ wc.err /\ wc.n = 0
        /\ i < Len(chunks)
        /\ Len(HelloWrites) = i
        /\ \A k \in 1..i : HelloWrites[k] = chunks[k]
        /\ Cardinality(SleepPos) =
              IF config.TimingRandomization
                 /\ config.TimingDelayMin < config.TimingDelayMax
              THEN i ELSE 0

\* C19 witness: the second chunk failed after a sleep, and the client ->
\* upstream goroutine went on writing afterwards
C19_SecondChunkFailed ==
    /\ reason = "ChunkWriteFailed"
    /\ i = 1
    /\ Cardinality(SleepPos) = 1
    /\ Len(chunks) = 3
    /\ \E f \in FwdPos : \A p \in HelloPos \cup SleepPos : p < f

\* C12: once both communicate goroutines run, a goroutine that has exited
\* has left both sockets closed, and the other goroutine then exits too, so
\* the tunnel ends with both goroutines gone and both sockets closed; also
\* while Serve is still writing ClientHello chunks.
C12_ExitClosesTunnel ==
    /\ [](\A d \in Dirs : fpc[d] = "exited" => (~lConn.open /\ ~rConn.open))
    /\ (\E d \in Dirs : fpc[d] = "exited") ~> (\A d \in Dirs : fpc[d] = "exited")

\* C12 witness: both goroutines have exited and both sockets are closed while
\* Serve is still inside writeChunks
C12_ClosedDuringChunks ==
    /\ \A d \in Dirs : fpc[d] = "exited"
    /\ ~lConn.open /\ ~rConn.open
    /\ pc \in {"chunk", "delay"}
    /\ i >= 1

\* C13: a tunnel that has sent the 200 response and waits for the
\* ClientHello, or is writing the ClientHello, always eventually moves on to
\* forwarding (the forwarders run and a ClientHello write has been made) or
\* to closed (Serve has returned), whatever the client and the upstream do.
C13_HandshakeMovesOn ==
    (pc \in {"readHello", "spawn", "chunk", "delay", "plain"})
        ~> \/ pc = "done"
           \/ (\A d \in Dirs : fpc[d] # "off") /\ Len(HelloWrites) >= 1


(* ------------------------- calls followed alone ----------------------- *)
\* The tunnel before any Serve call, on a handler with the default config:
\* the state in which the constructor, Config.Load, splitInChunks and
\* randomDelay are followed call by call.
TunnelIdle ==
    /\ config = DefaultHttpsHandlerConfig
    /\ hport = DefaultPort
    /\ pc = "idle"
    /\ req = NoReq
    /\ parseErr = FALSE
    /\ dials = <<>>
    /\ reason = ""
    /\ lConn = OpenConn
    /\ rConn = NoConn
    /\ cIn = <<>>
    /\ clientHello = <<>>
    /\ chunks = <<>>
    /\ i = 0
    /\ fpc = [d \in Dirs |-> "off"]
    /\ fbuf = [d \in Dirs |-> <<>>]
    /\ lLog = <<>>
    /\ rLog = <<>>
    /\ wc = NoWrite

(* --------------------------- NewHttpsHandler -------------------------- *)
\* every option a caller can pass, the rejected values included
Options ==
    {WithTimeout(t) : t \in {-1, 0, 1}}
      \cup {WithWindowSize(w) : w \in {-1, 0, 4}}
      \cup {WithAllowedPatterns(ap) : ap \in PatternArgs}
      \cup {WithExploit(ex) : ex \in BOOLEAN}
      \cup {WithTimingRandomization(1, 2), WithTimingRandomization(2, 1),
            WithTimingRandomization(1, 1), WithoutTimingRandomization}

InitNew ==
    /\ TunnelIdle
    /\ ctor = [pc |-> "args", opts |-> <<>>]
    /\ load = NoCall /\ sp = NoCall /\ rd = NoCall

\* the caller lists one more option: opts ...HttpsHandlerOption
NewAddOption ==
    /\ ctor.pc = "args"
    /\ Len(ctor.opts) < MaxOpts
    /\ \E o \in Options : ctor' = [ctor EXCEPT !.opts = Append(@, o)]
    /\ UNCHANGED <<tunnel, load, sp, rd>>

\* NewHttpsHandler(opts...) runs and returns the handler
NewCall ==
    /\ ctor.pc = "args"
    /\ ctor' = [pc |-> "built", opts |-> ctor.opts,
                config |-> NewHttpsHandler(ctor.opts)]
    /\ UNCHANGED <<tunnel, load, sp, rd>>

NextNew == NewAddOption \/ NewCall

SpecNew == InitNew /\ [][NextNew]_vars

\* the config the options leave behind, before Validate
Applied == ApplyOptions(DefaultHttpsHandlerConfig, ctor.opts)

\* C14: the config of the handler NewHttpsHandler returns has Timeout >= 0,
\* WindowSize >= 0 and, with TimingRandomization on, TimingDelayMin <=
\* TimingDelayMax; when the options produce a config that breaks one of
\* these, every field of the returned config is the default's.
C14_ConstructorValidates ==
    ctor.pc = "built" =>
        /\ ctor.config.Timeout >= 0
        /\ ctor.config.WindowSize >= 0
        /\ ctor.config.TimingRandomization =>
               ctor.config.TimingDelayMin <= ctor.config.TimingDelayMax
        /\ (\/ Applied.Timeout < 0
            \/ Applied.WindowSize < 0
            \/ Applied.TimingRandomization
                  /\ Applied.TimingDelayMin > Applied.TimingDelayMax)
              => ctor.config = DefaultHttpsHandlerConfig

\* a rejected window size discards the valid options given with it
C14_ValidFieldsDiscarded ==
    /\ ctor.pc = "built"
    /\ Applied.WindowSize < 0
    /\ Applied.Timeout = 1 /\ ~Applied.Exploit
    /\ ctor.config = DefaultHttpsHandlerConfig


(* ----------------------------- Config.Load ---------------------------- *)
\* new(Config): the zero value GetConfig hands out
ZeroConfig ==
    [Addr |-> "", Port |-> 0, DnsAddr |-> "", DnsPort |-> 0,
     DnsIPv4Only |-> FALSE, EnableDoh |-> FALSE, Debug |-> FALSE,
     Silent |-> FALSE, SystemProxy |-> FALSE, Timeout |-> 0, WindowSize |-> 0,
     AllowedPatterns |-> <<>>, TimingRandomization |-> FALSE,
     TimingDelayMin |-> 0, TimingDelayMax |-> 0]

\* values of --random-timing: none, the three presets, and two that are none
\* of them
TimingValues == {"", "short", "medium", "long", "Short", "fast"}
\* values of --pattern: none, one that compiles, one that does not
PatternFlags == {<<>>, <<"^example\\.com$">>, <<"(">>}

\* the Args the flags can produce; the flags the handler never sees keep the
\* defaults of ParseArgs
ArgsSet ==
    [Addr : {"127.0.0.1"}, Port : {8080}, DnsAddr : {"8.8.8.8"}, DnsPort : {53},
     DnsIPv4Only : {FALSE}, EnableDoh : {FALSE}, Debug : BOOLEAN,
     Silent : {FALSE}, SystemProxy : {TRUE}, Timeout : TimeoutArgs,
     AllowedPattern : PatternFlags, WindowSize : WindowSizeArgs,
     RandomTiming : [Value : TimingValues, IsSet : BOOLEAN]]

\* the switch on the preset with every unknown name taken for "long"
TimingPreset_DefaultLong(preset) ==
    CASE preset = "short" -> <<5, 25>>
      [] preset = "medium" -> <<25, 50>>
      [] OTHER -> <<50, 100>>

\* the switch on the preset: (TimingDelayMin, TimingDelayMax)
TimingPreset(preset) ==
    CASE preset = "short" -> <<5, 25>>
      [] preset = "medium" -> <<25, 50>>
      [] preset = "long" -> <<50, 100>>
      [] OTHER -> <<5, 25>>

\* regexp.MustCompile panics on a pattern that does not compile
CompileFails(pattern) == pattern = "("
\* the compiled pattern, as the set of host names it matches
MustCompile(pattern) == IF pattern = "^example\\.com$" THEN PatExample ELSE {}

\* the assignments of Load before parseAllowedPattern
LoadHead(c, args) ==
    [c EXCEPT !.Addr = args.Addr, !.Port = args.Port,
              !.DnsAddr = args.DnsAddr, !.DnsPort = args.DnsPort,
              !.DnsIPv4Only = args.DnsIPv4Only, !.Debug = args.Debug,
              !.EnableDoh = args.EnableDoh, !.Silent = args.Silent,
              !.SystemProxy = args.SystemProxy, !.Timeout = args.Timeout]

\* the assignments of Load from parseAllowedPattern on
LoadTail(c, args) ==
    LET preset == IF args.RandomTiming.Value = "" THEN "short"
                  ELSE args.RandomTiming.Value
        c1 == [c EXCEPT !.AllowedPatterns =
                            [k \in 1..Len(args.AllowedPattern) |->
                                MustCompile(args.AllowedPattern[k])],
                        !.WindowSize = args.WindowSize]
    IN  IF args.RandomTiming.IsSet
        THEN [c1 EXCEPT !.TimingRandomization = TRUE,
                        !.TimingDelayMin = TimingPreset(preset)[1],
                        !.TimingDelayMax = TimingPreset(preset)[2]]
        ELSE [c1 EXCEPT !.TimingRandomization = FALSE,
                        !.TimingDelayMin = 0,
                        !.TimingDelayMax = 0]

InitLoad ==
    /\ TunnelIdle
    /\ load = [pc |-> "new", c |-> ZeroConfig]
    /\ ctor = NoCall /\ sp = NoCall /\ rd = NoCall

\* c.Load(args) on the Config GetConfig returns, which an earlier Load may
\* have filled
LoadReturns ==
    /\ load.pc \in {"new", "loaded"}
    /\ \E args \in ArgsSet :
          /\ \A k \in 1..Len(args.AllowedPattern) :
                ~CompileFails(args.AllowedPattern[k])
          /\ load' = [pc |-> "loaded", args |-> args,
                      c |-> LoadTail(LoadHead(load.c, args), args)]
    /\ UNCHANGED <<tunnel, ctor, sp, rd>>

\* c.Load(args) panics in regexp.MustCompile, the fields after Timeout
\* left as they were
LoadPanics ==
    /\ load.pc \in {"new", "loaded"}
    /\ \E args \in ArgsSet :
          /\ \E k \in 1..Len(args.AllowedPattern) :
                CompileFails(args.AllowedPattern[k])
          /\ load' = [pc |-> "panic", args |-> args,
                      c |-> LoadHead(load.c, args)]
    /\ UNCHANGED <<tunnel, ctor, sp, rd>>

NextLoad == LoadReturns \/ LoadPanics

SpecLoad == InitLoad /\ [][NextLoad]_vars

\* C15: after Config.Load, with the random-timing flag set
\* TimingRandomization is true and (TimingDelayMin, TimingDelayMax) is
\* (5,25) for short, (25,50) for medium, (50,100) for long and (5,25) for
\* any other value; with the flag not set TimingRandomization is false.
C15_LoadTimingPresets ==
    load.pc = "loaded" =>
        LET v == load.args.RandomTiming.Value
            mm == <<load.c.TimingDelayMin, load.c.TimingDelayMax>>
        IN  IF load.args.RandomTiming.IsSet
            THEN /\ load.c.TimingRandomization
                 /\ v = "short" => mm = <<5, 25>>
                 /\ v = "medium" => mm = <<25, 50>>
                 /\ v = "long" => mm = <<50, 100>>
                 /\ v \notin {"short", "medium", "long"} => mm = <<5, 25>>
            ELSE ~load.c.TimingRandomization

\* an unknown preset name loaded as (5,25)
C15_UnknownPresetLoaded ==
    /\ load.pc = "loaded"
    /\ load.args.RandomTiming.IsSet
    /\ load.args.RandomTiming.Value = "fast"
    /\ load.c.TimingRandomization
    /\ load.c.TimingDelayMin = 5 /\ load.c.TimingDelayMax = 25


(* ---------------------------- splitInChunks --------------------------- *)
\* byte values of the buffers
SplitBytes == {1, 22, 255}
\* window sizes: negative, zero, and positive up to beyond the buffer
SplitSizes == (0 - 1)..MaxWindow

InitSplit ==
    /\ TunnelIdle
    /\ sp = [pc |-> "args", bytes |-> <<>>]
    /\ ctor = NoCall /\ load = NoCall /\ rd = NoCall

\* the caller's buffer is one byte longer
SplitGrow ==
    /\ sp.pc = "args"
    /\ Len(sp.bytes) < MaxLen
    /\ \E b \in SplitBytes : sp' = [sp EXCEPT !.bytes = Append(@, b)]
    /\ UNCHANGED <<tunnel, ctor, load, rd>>

\* splitInChunks(ctx, bytes, size) runs and returns
SplitCall ==
    /\ sp.pc = "args"
    /\ \E size \in SplitSizes :
          sp' = [pc |-> "called", bytes |-> sp.bytes, size |-> size,
                 chunks |-> splitInChunks(sp.bytes, size)]
    /\ UNCHANGED <<tunnel, ctor, load, rd>>

NextSplit == SplitGrow \/ SplitCall

SpecSplit == InitSplit /\ [][NextSplit]_vars

\* C16: for every buffer and every window size, positive, zero or negative,
\* the chunks splitInChunks returns, concatenated in order, are the buffer.
C16_ChunksConcatToBuffer ==
    sp.pc = "called" => Concat(sp.chunks) = sp.bytes

\* a buffer of distinct bytes cut in the middle of its last window
C16_UnevenSplitDone ==
    /\ sp.pc = "called"
    /\ sp.size = 2
    /\ sp.bytes = <<22, 1, 255>>
    /\ sp.chunks = <<<<22, 1>>, <<255>>>>

\* C17: for a window size w > 0 every returned chunk has length w, except
\* possibly the last, whose length is between 1 and w; no chunk is returned
\* if and only if the buffer is empty.
C17_PositiveWindowLengths ==
    (sp.pc = "called" /\ sp.size > 0) =>
        /\ \A k \in 1..(Len(sp.chunks) - 1) : Len(sp.chunks[k]) = sp.size
        /\ sp.chunks # <<>> =>
              /\ Len(sp.chunks[Len(sp.chunks)]) >= 1
              /\ Len(sp.chunks[Len(sp.chunks)]) <= sp.size
        /\ (sp.chunks = <<>>) <=> (sp.bytes = <<>>)

\* a window that leaves a shorter last chunk
C17_ShortLastChunk ==
    /\ sp.pc = "called"
    /\ sp.size = 3
    /\ Len(sp.bytes) = 4
    /\ Len(sp.chunks) = 2
    /\ Len(sp.chunks[1]) = 3 /\ Len(sp.chunks[2]) = 1

\* C18: for a window size w <= 0 a buffer of at least one byte comes back as
\* exactly two chunks, its first byte and the rest (lengths 1 and |B| - 1),
\* and the empty buffer as exactly one empty chunk.
C18_LegacySplit ==
    (sp.pc = "called" /\ sp.size <= 0) =>
        IF Len(sp.bytes) >= 1
        THEN /\ Len(sp.chunks) = 2
             /\ sp.chunks[1] = <<sp.bytes[1]>>
             /\ sp.chunks[2] = Tail(sp.bytes)
             /\ Len(sp.chunks[2]) = Len(sp.bytes) - 1
        ELSE sp.chunks = << <<>> >>

\* a one-byte buffer split with a negative window: the byte, then nothing
C18_OneByteLegacy ==
    /\ sp.pc = "called"
    /\ sp.size < 0
    /\ Len(sp.bytes) = 1
    /\ sp.chunks = <<sp.bytes, <<>>>>


(* ----------------------------- randomDelay ---------------------------- *)
\* TimingDelayMin / TimingDelayMax values: next to 0 and next to 65535
DelayValues == (0..DelayEdge) \cup ((Uint16 - 1 - DelayEdge)..(Uint16 - 1))

\* configs of the handlers randomDelay runs on
DelayConfigs ==
    {NewHttpsHandler(<<WithTimingRandomization(min, max)>>) :
        min \in DelayValues, max \in DelayValues}
      \cup {NewHttpsHandler(<<WithTimingRandomization(min, max),
                              WithoutTimingRandomization>>) :
        min \in DelayValues, max \in DelayValues}

\* rand.Intn returning n as well
RandIntn_Inclusive(n) == 0..n

\* rand.Intn(n): any of 0 .. n-1
RandIntn(n) == 0..(n - 1)

\* the results of rand.Intn(n) followed: those next to 0 and next to n-1
Draws(n) ==
    {r \in RandIntn(n) : r <= DelayEdge \/ r >= n - 1 - DelayEdge}

InitDelay ==
    /\ TunnelIdle
    /\ \E c \in DelayConfigs : rd = [pc |-> "call", config |-> c]
    /\ ctor = NoCall /\ load = NoCall /\ sp = NoCall

\* the two early returns: randomization off, or min >= max
DelayReturnEarly ==
    /\ rd.pc = "call"
    /\ \/ ~rd.config.TimingRandomization
       \/ rd.config.TimingDelayMin >= rd.config.TimingDelayMax
    /\ rd' = [pc |-> "returned", config |-> rd.config, slept |-> FALSE]
    /\ UNCHANGED <<tunnel, ctor, load, sp>>

\* delayRange := TimingDelayMax - TimingDelayMin, in uint16
DelayRange ==
    /\ rd.pc = "call"
    /\ rd.config.TimingRandomization
    /\ ~(rd.config.TimingDelayMin >= rd.config.TimingDelayMax)
    /\ rd' = [pc |-> "ranged", config |-> rd.config,
              delayRange |->
                  (rd.config.TimingDelayMax - rd.config.TimingDelayMin) % Uint16]
    /\ UNCHANGED <<tunnel, ctor, load, sp>>

\* delay := TimingDelayMin + uint16(rand.Intn(int(delayRange)+1))
DelayDraw ==
    /\ rd.pc = "ranged"
    /\ \E r \in Draws(rd.delayRange + 1) :
          rd' = [pc |-> "drawn", config |-> rd.config,
                 delayRange |-> rd.delayRange, r |-> r,
                 delay |-> (rd.config.TimingDelayMin + (r % Uint16)) % Uint16]
    /\ UNCHANGED <<tunnel, ctor, load, sp>>

\* time.Sleep(delay ms), then the return
DelaySleep ==
    /\ rd.pc = "drawn"
    /\ rd' = [pc |-> "returned", config |-> rd.config, slept |-> TRUE]
    /\ UNCHANGED <<tunnel, ctor, load, sp>>

NextDelay == DelayReturnEarly \/ DelayRange \/ DelayDraw \/ DelaySleep

SpecDelay == InitDelay /\ [][NextDelay]_vars

\* C20: with TimingDelayMin < TimingDelayMax, 16-bit unsigned, every value r
\* the random source returns is in 0 .. max - min, the delay is min + r
\* without wrapping modulo 2^16 and lies between min and max; both min and
\* max are delays some draw produces.
C20_DelayWithinBounds ==
    /\ rd.pc = "drawn" =>
          /\ rd.config.TimingDelayMin < rd.config.TimingDelayMax
          /\ rd.r >= 0
          /\ rd.r <= rd.config.TimingDelayMax - rd.config.TimingDelayMin
          /\ rd.delay = rd.config.TimingDelayMin + rd.r
          /\ rd.config.TimingDelayMin <= rd.delay
          /\ rd.delay <= rd.config.TimingDelayMax
    /\ rd.pc = "ranged" =>
          /\ \E r \in Draws(rd.delayRange + 1) :
                (rd.config.TimingDelayMin + r) % Uint16 = rd.config.TimingDelayMin
          /\ \E r \in Draws(rd.delayRange + 1) :
                (rd.config.TimingDelayMin + r) % Uint16 = rd.config.TimingDelayMax

\* the widest range: min 0, max 65535, and the draw that gives 65535
C20_LargestDelayDrawn ==
    /\ rd.pc = "drawn"
    /\ rd.config.TimingDelayMin = 0
    /\ rd.config.TimingDelayMax = Uint16 - 1
    /\ rd.r = Uint16 - 1
    /\ rd.delay = Uint16 - 1

====
